---- MODULE Spec2Model ----
(***************************************************************************)
(* A model of HousingSearchAgent (src/housing_search.py): the query        *)
(* interpreter, the search URL builder, the listing extractor, the         *)
(* criteria matcher and the response formatter, with the two external      *)
(* collaborators (text understanding, crawl) as nondeterministic inputs.   *)
(*                                                                         *)
(* Python values are tagged records, so that a value of the wrong type is  *)
(* a value the model can hold: VNone is None, VInt(n) a number, VStr(s) a  *)
(* string, Absent a key that a dict does not have.  A string is a sequence *)
(* of atoms (characters or indivisible pieces of text); a text with line   *)
(* breaks is the sequence of its lines, as text.split('\n') gives them,    *)
(* and a line is the sequence of its whitespace-separated tokens.          *)
(***************************************************************************)
EXTENDS Integers, Sequences, FiniteSets, TLC

VARIABLES last_criteria, last_url, call

vars == <<last_criteria, last_url, call>>

----------------------------------------------------------------------------
(* Values *)

VNone == [t |-> "none"]

Absent == [t |-> "absent"]

VInt(n) == [t |-> "int", n |-> n]

VStr(s) == [t |-> "str", s |-> s]

VList(xs) == [t |-> "list", xs |-> xs]

\* A string with line breaks; the empty string '' is the one empty line.
VText(lines) == [t |-> "text", lines |-> lines]

\* Python truthiness, as used by `if x:`, `not x` and all([...]).
Truthy(v) ==
  CASE v.t = "int" -> v.n # 0
    [] v.t = "str" -> v.s # <<>>
    [] v.t = "list" -> v.xs # <<>>
    [] v.t = "text" -> v.lines # << <<>> >>
    [] OTHER -> FALSE

\* str(v) inside an f-string, as a sequence of atoms.
Render(v) ==
  CASE v.t = "int" -> <<ToString(v.n)>>
    [] v.t = "str" -> v.s
    [] OTHER -> <<"None">>

\* The result of a call: a value, or an exception that leaves the call.
Return(v) == [raised |-> FALSE, val |-> v]

Raise(e) == [raised |-> TRUE, exc |-> e]

----------------------------------------------------------------------------
(* HousingSearchAgent.__init__ *)

base_url == "https://www.boligportal.dk/en"

----------------------------------------------------------------------------
(* HousingCriteria and _parse_query *)

\* The dataclass constructor applied to a dict of keyword arguments: it
\* raises TypeError when a field without default is missing or a keyword is
\* unknown, and stores every value it is given as it is.
HousingCriteria(d) ==
  IF d.location = Absent \/ d.max_price = Absent \/ d.min_bedrooms = Absent \/ d.extra
  THEN Raise("TypeError")
  ELSE Return([location |-> d.location,
               max_price |-> d.max_price,
               min_bedrooms |-> d.min_bedrooms,
               property_type |-> IF d.property_type = Absent THEN VStr(<<"all">>)
                                 ELSE d.property_type,
               min_size_m2 |-> IF d.min_size_m2 = Absent THEN VNone ELSE d.min_size_m2,
               max_size_m2 |-> VNone,
               furnished |-> VNone,
               immediate_availability |-> VNone,
               pets_allowed |-> VNone])

ClarifyMessage == "Please specify location, number of rooms, and maximum monthly rent."

\* llm is the outcome of the text-understanding call: it raises, or its
\* content is not JSON, or JSON that is not an object, or an object.
_parse_query(llm) ==
  IF llm.kind # "object"
  THEN Raise([type |-> "ValueError", msg |-> ClarifyMessage])
  ELSE IF HousingCriteria(llm.d).raised
       THEN Raise([type |-> "ValueError", msg |-> ClarifyMessage])
       ELSE Return(HousingCriteria(llm.d).val)

----------------------------------------------------------------------------
(* construct_search_url *)

\* str.lower() on the characters the model's locations are made of.
LowerChar(c) ==
  CASE c = "A" -> "a"
    [] c = "B" -> "b"
    [] c = "C" -> "c"
    [] OTHER -> c

\* location.lower().replace(" ", "-")
UrlLocation(s) ==
  [i \in 1..Len(s) |-> IF LowerChar(s[i]) = " " THEN "-" ELSE LowerChar(s[i])]

RECURSIVE JoinWith(_, _)
\* sep.join(parts), for parts that are sequences of atoms.
JoinWith(sep, parts) ==
  IF parts = <<>> THEN <<>>
  ELSE IF Len(parts) = 1 THEN parts[1]
  ELSE parts[1] \o <<sep>> \o JoinWith(sep, Tail(parts))

\* construct_search_url without the lower-casing of the location
construct_search_url_NoLower(criteria) ==
  IF criteria.location.t # "str"
  THEN Raise("AttributeError")
  ELSE
    LET url == <<base_url, "/rental-properties/">>
                 \o [i \in 1..Len(criteria.location.s) |->
                       IF criteria.location.s[i] = " " THEN "-" ELSE criteria.location.s[i]]
                 \o <<"/">> \o Render(criteria.min_bedrooms) \o <<"-rooms">>
        p1 == << <<"max_monthly_rent=">> \o Render(criteria.max_price) >>
        p2 == IF criteria.property_type # VStr(<<"all">>)
              THEN << <<"housing_type=">> \o Render(criteria.property_type) >>
              ELSE <<>>
        p3 == IF Truthy(criteria.min_size_m2)
              THEN << <<"min_size_m2=">> \o Render(criteria.min_size_m2) >>
              ELSE <<>>
    IN  Return(url \o <<"/?">> \o JoinWith("&", p1 \o p2 \o p3))

construct_search_url(criteria) ==
  IF criteria.location.t # "str"
  THEN Raise("AttributeError")
  ELSE
    LET url == <<base_url, "/rental-properties/">> \o UrlLocation(criteria.location.s)
                 \o <<"/">> \o Render(criteria.min_bedrooms) \o <<"-rooms">>
        p1 == << <<"max_monthly_rent=">> \o Render(criteria.max_price) >>
        p2 == IF criteria.property_type # VStr(<<"all">>)
              THEN << <<"housing_type=">> \o Render(criteria.property_type) >>
              ELSE <<>>
        p3 == IF Truthy(criteria.min_size_m2)
              THEN << <<"min_size_m2=">> \o Render(criteria.min_size_m2) >>
              ELSE <<>>
        params == p1 \o p2 \o p3
    IN  Return(IF params # <<>>
               THEN url \o <<"/?">> \o JoinWith("&", params)
               ELSE url)

----------------------------------------------------------------------------
(* The patterns of _process_housing_results *)

Digits == {"0", "1", "2", "3", "4", "5", "6", "7", "8", "9"}

DigitValue(c) ==
  CASE c = "0" -> 0 [] c = "1" -> 1 [] c = "2" -> 2 [] c = "3" -> 3 [] c = "4" -> 4
    [] c = "5" -> 5 [] c = "6" -> 6 [] c = "7" -> 7 [] c = "8" -> 8 [] c = "9" -> 9

RECURSIVE DigitsToInt(_)
\* int(s) / float(s) for a string of decimal digits.
DigitsToInt(s) ==
  IF s = <<>> THEN 0
  ELSE 10 * DigitsToInt(SubSeq(s, 1, Len(s) - 1)) + DigitValue(s[Len(s)])

AllDigits(s) == \A i \in 1..Len(s) : s[i] \in Digits

\* (?:,\d{3})*
ThousandsGroups(g) ==
  /\ Len(g) % 4 = 0
  /\ \A j \in 1..Len(g) : IF j % 4 = 1 THEN g[j] = "," ELSE g[j] \in Digits

\* (?:\.\d{2})?
DecimalPart(f) ==
  \/ f = <<>>
  \/ Len(f) = 3 /\ f[1] = "." /\ f[2] \in Digits /\ f[3] \in Digits

\* \d+(?:,\d{3})*(?:\.\d{2})? matches the whole of s.
PricePattern(s) ==
  \E a \in 1..Len(s) : \E b \in a..Len(s) :
    /\ AllDigits(SubSeq(s, 1, a))
    /\ ThousandsGroups(SubSeq(s, a + 1, b))
    /\ DecimalPart(SubSeq(s, b + 1, Len(s)))

RECURSIVE Flatten(_)
\* The tokens of a text in reading order (the patterns' \s* steps over line
\* breaks as over spaces).
Flatten(lines) ==
  IF lines = <<>> THEN <<>> ELSE Head(lines) \o Flatten(Tail(lines))

CurrencyMarkers == {"DKK", "kr."}

\* re.IGNORECASE on the words the model's texts are made of.
LowerWord(w) ==
  CASE w = "Room" -> "room"
    [] w = "ROOMS" -> "rooms"
    [] OTHER -> w

RoomWords == {"room", "rooms", "rm", "bedroom", "bedrooms", "værelser"}

AreaMarkers == {"m²"}

\* The number part of the three patterns matches the whole of s.
NumberPattern(kind, s) == IF kind = "price" THEN PricePattern(s) ELSE AllDigits(s)

\* The word part of the three patterns: (?:DKK|kr\.), (?:room|rm|bedroom|værelser)
\* with re.IGNORECASE, m²
IsMarker(kind, w) ==
  CASE kind = "price" -> w \in CurrencyMarkers
    [] kind = "room" -> LowerWord(w) \in RoomWords
    [] kind = "size" -> w \in AreaMarkers

\* The least start in token tok from which the number pattern matches up to
\* the end of the token, 0 if there is none (re.search takes the leftmost
\* match).
LeftmostStart(kind, tok) ==
  LET starts == {s \in 1..Len(tok) : NumberPattern(kind, SubSeq(tok, s, Len(tok)))}
  IN  IF starts = {} THEN 0 ELSE CHOOSE s \in starts : \A r \in starts : s <= r

\* re.search of "<number>\s*<marker>" in the text: group(1) of the leftmost
\* match, or VNone.
SearchNumber(kind, lines) ==
  LET toks == Flatten(lines)
      hits == {i \in 1..(Len(toks) - 1) :
                 /\ LeftmostStart(kind, toks[i]) # 0
                 /\ Len(toks[i + 1]) = 1
                 /\ IsMarker(kind, toks[i + 1][1])}
  IN  IF hits = {} THEN VNone
      ELSE LET i == CHOOSE h \in hits : \A k \in hits : h <= k
           IN  VStr(SubSeq(toks[i], LeftmostStart(kind, toks[i]), Len(toks[i])))

price_match(text) == SearchNumber("price", text)

room_match(text) == SearchNumber("room", text)

size_match(text) == SearchNumber("size", text)

\* price_str = group(1).replace(',', '').replace('.', ''); float(price_str)
PriceOf(m) ==
  IF m = VNone THEN VNone
  ELSE VInt(DigitsToInt(SelectSeq(m.s, LAMBDA c : c # "," /\ c # ".")))

NumberOf(m) == IF m = VNone THEN VNone ELSE VInt(DigitsToInt(m.s))

----------------------------------------------------------------------------
(* _matches_criteria *)

\* a > b in Python 3: TypeError unless both are numbers.
Comparable(a, b) == a.t = "int" /\ b.t = "int"

_matches_criteria(listing, criteria) ==
  LET price == listing.price_dkk
      bedrooms == listing.bedrooms
      location == listing.location
  IN  IF ~(Truthy(price) /\ Truthy(bedrooms) /\ Truthy(location)) THEN FALSE
      ELSE IF ~Comparable(price, criteria.max_price) THEN FALSE
      ELSE IF price.n > criteria.max_price.n THEN FALSE
      ELSE IF ~Comparable(bedrooms, criteria.min_bedrooms) THEN FALSE
      ELSE IF bedrooms.n < criteria.min_bedrooms.n THEN FALSE
      ELSE TRUE

----------------------------------------------------------------------------
(* The page fragments of the model *)

RentalPath == "/rental-properties/"

Word(w) == <<w>>

\* "Nice flat\n12,500 DKK\n3 room apartment\n70 m²"
NiceText ==
  VText(<< <<Word("Nice"), Word("flat")>>,
           <<<<"1", "2", ",", "5", "0", "0">>, Word("DKK")>>,
           <<<<"3">>, Word("room"), Word("apartment")>>,
           <<<<"7", "0">>, Word("m²")>> >>)

RelativeLink == VStr(<<RentalPath, "copenhagen/123">>)

AbsoluteLink == VStr(<<"http", "s://www.boligportal.dk/en", RentalPath, "aarhus/9">>)

OtherLink == VStr(<<"/about">>)

Dict(text, links) == [isdict |-> TRUE, text |-> text, links |-> links]

NiceFragment == Dict(NiceText, VList(<<RelativeLink>>))

\* "Big house\n19,500.00 kr.\n2 Room", an absolute link after another link
BigFragment ==
  Dict(VText(<< <<Word("Big"), Word("house")>>,
                <<<<"1", "9", ",", "5", "0", "0", ".", "0", "0">>, Word("kr.")>>,
                <<<<"2">>, Word("Room")>> >>),
       VList(<<OtherLink, AbsoluteLink, RelativeLink>>))

\* "\n18000 DKK 3 rooms": the first line is empty; no links key
UntitledFragment ==
  Dict(VText(<< <<>>, <<<<"1", "8", "0", "0", "0">>, Word("DKK"), <<"3">>, Word("rooms")>> >>),
       Absent)

\* "Studio\n5,000 DKK\n0 rooms\n25 m²"
StudioFragment ==
  Dict(VText(<< <<Word("Studio")>>,
                <<<<"5", ",", "0", "0", "0">>, Word("DKK")>>,
                <<<<"0">>, Word("rooms")>>,
                <<<<"2", "5">>, Word("m²")>> >>),
       VList(<<RelativeLink>>))

\* "Swap\n0 DKK 2 værelser"
SwapFragment ==
  Dict(VText(<< <<Word("Swap")>>, <<<<"0">>, Word("DKK"), <<"2">>, Word("værelser")>> >>),
       VList(<<OtherLink>>))

\* "Call us 3 bedrooms": no price
NoPriceFragment ==
  Dict(VText(<< <<Word("Call"), Word("us"), <<"3">>, Word("bedrooms")>> >>),
       VList(<<AbsoluteLink>>))

EmptyTextFragment == Dict(VText(<< <<>> >>), VList(<<RelativeLink>>))

NoTextFragment == Dict(Absent, VList(<<RelativeLink>>))

\* an item of the crawl data that is not a dict
NotDictFragment == [isdict |-> FALSE, text |-> Absent, links |-> Absent]

\* 'links': null
NullLinksFragment == Dict(NiceText, VNone)

\* a link that is not a string before the listing's link
BadLinkFragment == Dict(NiceText, VList(<<VInt(5), RelativeLink>>))

\* 'text': 5
NumberTextFragment == Dict(VInt(5), VList(<<RelativeLink>>))

\* Fragments whose processing raises
MalformedFragments ==
  {NotDictFragment, NullLinksFragment, BadLinkFragment, NumberTextFragment}

EmptyFragments == {EmptyTextFragment, NoTextFragment}

Fragments ==
  {NiceFragment, BigFragment, UntitledFragment, StudioFragment, SwapFragment,
   NoPriceFragment} \cup EmptyFragments \cup MalformedFragments

\* The three searches and the conversions of the loop body on a text
ExtractFields(lines) ==
  [price |-> PriceOf(price_match(lines)),
   rooms |-> NumberOf(room_match(lines)),
   size |-> NumberOf(size_match(lines))]

\* ExtractFields tabulated on the texts of the model
FieldsOfText ==
  [lines \in {f.text.lines : f \in {g \in Fragments : g.text.t = "text"}} |->
     ExtractFields(lines)]

----------------------------------------------------------------------------
(* _process_housing_results *)

\* A line of text as one string: its tokens with a space between them.
LineString(line) == JoinWith(" ", line)

\* '/rental-properties/' in link
ContainsRentalPath(link) == \E i \in 1..Len(link.s) : link.s[i] = RentalPath

\* listing_url.startswith('http')
StartsWithHttp(s) == s # <<>> /\ s[1] = "http"

RECURSIVE FirstRentalLink(_, _)
\* next((link for link in links if '/rental-properties/' in link), None): the
\* generator stops at the first hit; a link that is not a string raises
\* TypeError when it is reached.
FirstRentalLink(links, i) ==
  IF i > Len(links) THEN Return(VNone)
  ELSE IF links[i].t # "str" THEN Raise("TypeError")
  ELSE IF ContainsRentalPath(links[i]) THEN Return(links[i])
  ELSE FirstRentalLink(links, i + 1)

\* The body of the loop for one item of the crawl data: "raise" when the
\* try block raises (logged, next item), "skip" at the `continue` on an empty
\* text, "append" when the listing matches, "drop" when it does not.
ProcessItem(item, criteria) ==
  IF ~item.isdict THEN [kind |-> "raise"]
  ELSE
    LET text_content == IF item.text = Absent THEN VText(<< <<>> >>) ELSE item.text
        links == IF item.links = Absent THEN VList(<<>>) ELSE item.links
    IN  IF ~Truthy(text_content) THEN [kind |-> "skip"]
        ELSE IF text_content.t # "text" THEN [kind |-> "raise"]
        ELSE IF links.t # "list" THEN [kind |-> "raise"]
        ELSE IF FirstRentalLink(links.xs, 1).raised THEN [kind |-> "raise"]
        ELSE
          LET price == FieldsOfText[text_content.lines].price
              rooms == FieldsOfText[text_content.lines].rooms
              size == FieldsOfText[text_content.lines].size
              listing_url == FirstRentalLink(links.xs, 1).val
              listing == [title |-> VStr(LineString(text_content.lines[1])),
                          price_dkk |-> price,
                          location |-> criteria.location,
                          size_m2 |-> size,
                          bedrooms |-> rooms,
                          property_type |-> VStr(<<"apartment">>),
                          listing_url |-> listing_url]
              \* assigned after the dict is built, and not read again
              listing_url_2 == IF Truthy(listing_url) /\ ~StartsWithHttp(listing_url.s)
                               THEN VStr(<<base_url>> \o listing_url.s)
                               ELSE listing_url
          IN  IF _matches_criteria(listing, criteria)
              THEN [kind |-> "append", listing |-> listing]
              ELSE [kind |-> "drop"]

RECURSIVE ProcessFrom_Abort(_, _, _, _)
\* ProcessFrom with the try block around the loop instead of inside it
ProcessFrom_Abort(crawl_data, criteria, i, listings) ==
  IF i > Len(crawl_data) THEN listings
  ELSE LET r == ProcessItem(crawl_data[i], criteria)
       IN  IF r.kind = "raise" THEN listings
           ELSE ProcessFrom_Abort(crawl_data, criteria, i + 1,
                                  IF r.kind = "append" THEN Append(listings, r.listing)
                                  ELSE listings)

RECURSIVE ProcessFrom(_, _, _, _)
\* The for loop from item i on, with the listings collected so far.
ProcessFrom(crawl_data, criteria, i, listings) ==
  IF i > Len(crawl_data) THEN listings
  ELSE LET r == ProcessItem(crawl_data[i], criteria)
       IN  ProcessFrom(crawl_data, criteria, i + 1,
                       IF r.kind = "append" THEN Append(listings, r.listing)
                       ELSE listings)

\* crawl_data is what _perform_crawl returned: a list, or a value that
\* cannot be iterated.
_process_housing_results(crawl_data, criteria) ==
  IF crawl_data.t # "list" THEN Raise("TypeError")
  ELSE Return(ProcessFrom(crawl_data.xs, criteria, 1, <<>>))

----------------------------------------------------------------------------
(* _construct_response *)

Pad3(m) ==
  IF m < 10 THEN <<"00", ToString(m)>>
  ELSE IF m < 100 THEN <<"0", ToString(m)>>
  ELSE <<ToString(m)>>

RECURSIVE FormatThousands(_)
\* f"{n:,.0f}" for a non-negative whole number
FormatThousands(n) ==
  IF n < 1000 THEN <<ToString(n)>>
  ELSE FormatThousands(n \div 1000) \o <<",">> \o Pad3(n % 1000)

\* listing.get('title', 'Unlisted Property'): the default is for a listing
\* without the key; every listing the extractor builds has it.
TitleOf(listing) == listing.title

ListingBlock(i, listing) ==
  << <<ToString(i), ". ">> \o TitleOf(listing).s >>
  \o (IF Truthy(listing.price_dkk)
      THEN << <<"   Price: ">> \o FormatThousands(listing.price_dkk.n) \o <<" DKK/month">> >>
      ELSE <<>>)
  \o (IF Truthy(listing.size_m2)
      THEN << <<"   Size: ", ToString(listing.size_m2.n), ".0", " m²">> >>
      ELSE <<>>)
  \o (IF Truthy(listing.bedrooms)
      THEN << <<"   Rooms: ", ToString(listing.bedrooms.n)>> >>
      ELSE <<>>)
  \o (IF Truthy(listing.listing_url)
      THEN << <<"   Link: ">> \o listing.listing_url.s >>
      ELSE <<>>)
  \o << <<>> >>

RECURSIVE ListingBlocks(_, _)
ListingBlocks(listings, i) ==
  IF i > Len(listings) THEN <<>>
  ELSE ListingBlock(i, listings[i]) \o ListingBlocks(listings, i + 1)

NoResultsLine ==
  "No available properties found matching your criteria. You can check for new listings at:"

\* The response as the lines that response.split('\n') gives.
_construct_response(self, listings) ==
  IF listings = <<>>
  THEN << <<NoResultsLine>>, Render(self.last_url) >>
  ELSE << <<"Found ", ToString(Len(listings)), " matching properties:">>, <<>> >>
       \o ListingBlocks(listings, 1) \o << <<>> >>

----------------------------------------------------------------------------
(* _perform_crawl, _execute_search, search_housing *)

\* crawl is the outcome of firecrawl.crawl_url: it raises, or returns a
\* response; crawl_response.get('data', []) raises on a response that is not
\* a dict, and the exception is logged and raised again.
_perform_crawl(crawl) ==
  IF crawl.kind = "raise" THEN Raise("CrawlError")
  ELSE IF ~crawl.isdict THEN Raise("AttributeError")
  ELSE Return(IF crawl.data = Absent THEN VList(<<>>) ELSE crawl.data)

\* The dict that _execute_search returns once the search URL is built: the
\* exceptions of the crawl and of the processing become the "error" dict,
\* which has no "listings" key.
SearchResult(search_url, crawl_status, criteria) ==
  IF crawl_status.raised
  THEN [status |-> "error", listings |-> Absent, search_url |-> search_url]
  ELSE IF _process_housing_results(crawl_status.val, criteria).raised
  THEN [status |-> "error", listings |-> Absent, search_url |-> search_url]
  ELSE [status |-> "success",
        listings |-> VList(_process_housing_results(crawl_status.val, criteria).val),
        search_url |-> search_url]

\* _execute_search after construct_search_url: an exception of
\* construct_search_url leaves the function (it is outside the try block).
ExecuteWithUrl(self, criteria, crawl, search_url) ==
  IF search_url.raised
  THEN [raised |-> TRUE, last_url |-> self.last_url, crawled |-> FALSE]
  ELSE [raised |-> FALSE,
        last_url |-> VStr(search_url.val),
        crawled |-> TRUE,
        val |-> SearchResult(search_url.val, _perform_crawl(crawl), criteria)]

\* The result carries the agent's last_url after the call and whether the
\* crawl collaborator was called.
_execute_search(self, criteria, crawl) ==
  ExecuteWithUrl(self, criteria, crawl, construct_search_url(criteria))

ApologyText == "Sorry, I encountered an error. You can try searching directly at: "

\* The except clause of search_housing
Apology(url) == << <<ApologyText>> \o Render(url) >>

\* search_results.get("listings", [])
ListingsOf(search_results) ==
  IF search_results.listings = Absent THEN <<>> ELSE search_results.listings.xs

\* search_housing after _execute_search
SearchWithResults(criteria, search_results) ==
  IF search_results.raised
  THEN [raised |-> FALSE, ret |-> Apology(search_results.last_url),
        last_criteria |-> criteria, last_url |-> search_results.last_url,
        criteria |-> criteria, crawled |-> FALSE, status |-> "none",
        listings |-> <<>>]
  ELSE [raised |-> FALSE,
        ret |-> _construct_response([last_url |-> search_results.last_url],
                                    ListingsOf(search_results.val)),
        last_criteria |-> criteria, last_url |-> search_results.last_url,
        criteria |-> criteria, crawled |-> TRUE,
        status |-> search_results.val.status,
        listings |-> ListingsOf(search_results.val)]

\* SearchWithParsed with _parse_query called outside the try block
SearchWithParsed_Uncaught(self, parsed, crawl) ==
  IF parsed.raised
  THEN [raised |-> TRUE, ret |-> <<>>,
        last_criteria |-> self.last_criteria, last_url |-> self.last_url,
        criteria |-> VNone, crawled |-> FALSE, status |-> "none",
        listings |-> <<>>]
  ELSE SearchWithResults(parsed.val,
                         _execute_search([self EXCEPT !.last_criteria = parsed.val],
                                         parsed.val, crawl))

\* search_housing after _parse_query
SearchWithParsed(self, parsed, crawl) ==
  IF parsed.raised
  THEN [raised |-> FALSE, ret |-> Apology(self.last_url),
        last_criteria |-> self.last_criteria, last_url |-> self.last_url,
        criteria |-> VNone, crawled |-> FALSE, status |-> "none",
        listings |-> <<>>]
  ELSE SearchWithResults(parsed.val,
                         _execute_search([self EXCEPT !.last_criteria = parsed.val],
                                         parsed.val, crawl))

\* The whole of search_housing on the agent self, with the outcomes of the
\* two collaborators: the returned text (or the exception that leaves the
\* function), the agent's fields after the call, and what the call did.
search_housing(self, llm, crawl) == SearchWithParsed(self, _parse_query(llm), crawl)

----------------------------------------------------------------------------
(* Inputs *)

\* The longest crawl output, in fragments.
MaxFrags == 2

SeqsUpTo(S, n) == UNION {[1..k -> S] : k \in 0..n}

\* The fragments of the crawl outputs of whole searches
SearchFragments == {NiceFragment, UntitledFragment, NotDictFragment}

CrawlOutcomes ==
  {[kind |-> "raise"],
   [kind |-> "response", isdict |-> FALSE, data |-> Absent],
   [kind |-> "response", isdict |-> TRUE, data |-> Absent],
   [kind |-> "response", isdict |-> TRUE, data |-> VNone]}
  \cup {[kind |-> "response", isdict |-> TRUE, data |-> VList(xs)] :
          xs \in SeqsUpTo(SearchFragments, MaxFrags)}

Copenhagen == VStr(<<"copenhagen">>)

AarhusC == VStr(<<"A", "arhus", " ", "C">>)

\* The worked example of the prompt
ExamplePayload ==
  [location |-> Copenhagen, max_price |-> VInt(19000), min_bedrooms |-> VInt(2),
   property_type |-> VStr(<<"apartment">>), min_size_m2 |-> Absent, extra |-> FALSE]

Payloads ==
  {[ExamplePayload EXCEPT !.location = v] :
     v \in {Copenhagen, AarhusC, VStr(<<>>), VInt(7), VNone, Absent}}
  \cup {[ExamplePayload EXCEPT !.max_price = v] :
          v \in {VInt(1), VInt(0), VInt(-5), VStr(<<"cheap">>), VNone, Absent}}
  \cup {[ExamplePayload EXCEPT !.min_bedrooms = v] :
          v \in {VInt(0), VInt(-1), VStr(<<"two">>), Absent}}
  \cup {[ExamplePayload EXCEPT !.property_type = v, !.min_size_m2 = w, !.location = AarhusC] :
          v \in {VStr(<<"all">>), VStr(<<"apartment">>)},
          w \in {VInt(0), VInt(50), Absent}}
  \cup {[ExamplePayload EXCEPT !.property_type = Absent],
        [ExamplePayload EXCEPT !.min_size_m2 = VNone],
        [ExamplePayload EXCEPT !.extra = TRUE]}

LLMOutcomes ==
  {[kind |-> "raise"], [kind |-> "notjson"], [kind |-> "notobject"]}
  \cup {[kind |-> "object", d |-> d] : d \in Payloads}

\* The required fields are of their declared types, max_price > 0 and
\* min_bedrooms >= 0
RequiredValid(c) ==
  /\ c.location.t = "str"
  /\ c.max_price.t = "int" /\ c.max_price.n > 0
  /\ c.min_bedrooms.t = "int" /\ c.min_bedrooms.n >= 0

\* Criteria that satisfy the invariant of the data model
ValidCriteria(c) ==
  /\ RequiredValid(c)
  /\ c.property_type.t = "str"
  /\ c.min_size_m2.t \in {"none", "int"}

CriteriaSet ==
  {HousingCriteria(d).val : d \in {p \in Payloads : ~HousingCriteria(p).raised}}

ValidCriteriaSet == {c \in CriteriaSet : ValidCriteria(c)}

\* The criteria of the calls of _process_housing_results
ProcessCriteriaSet ==
  {c \in ValidCriteriaSet :
     c.property_type = VStr(<<"apartment">>) /\ c.min_size_m2 = VNone}

\* Listings as the extractor builds them, and with a missing location
ListingSet ==
  [title : {VStr(<<"Nice", " ", "flat">>)},
   price_dkk : {VNone, VInt(0), VInt(1), VInt(18000), VInt(19000), VInt(19500)},
   location : {VNone, Copenhagen},
   size_m2 : {VNone},
   bedrooms : {VNone, VInt(0), VInt(1), VInt(2), VInt(3)},
   property_type : {VStr(<<"apartment">>)},
   listing_url : {VNone}]

----------------------------------------------------------------------------
(* The agent *)

Init ==
  /\ last_criteria = VNone
  /\ last_url = VNone
  /\ call = [op |-> "none"]

\* The loop of run (run_demo_loop) ends when a function raises.
Running == IF call.op = "search_housing" THEN ~call.raised ELSE TRUE

\* One call of search_housing by the search persona.
SearchHousing(llm, crawl) ==
  /\ Running
  /\ \E r \in {search_housing([last_criteria |-> last_criteria, last_url |-> last_url],
                               llm, crawl)} :
         /\ last_criteria' = r.last_criteria
         /\ last_url' = r.last_url
         /\ call' = [op |-> "search_housing",
                     llm |-> llm,
                     crawl |-> IF r.crawled THEN crawl ELSE [kind |-> "notcalled"],
                     raised |-> r.raised,
                     ret |-> r.ret,
                     criteria |-> r.criteria,
                     crawled |-> r.crawled,
                     status |-> r.status,
                     listings |-> r.listings]

Next == \E llm \in LLMOutcomes, crawl \in CrawlOutcomes : SearchHousing(llm, crawl)

Spec == Init /\ [][Next]_vars

\* _matches_criteria on one listing and one criteria
MatchesCriteria(listing, criteria) ==
  /\ call.op = "none"
  /\ call' = [op |-> "_matches_criteria", listing |-> listing, criteria |-> criteria,
              ret |-> _matches_criteria(listing, criteria)]
  /\ UNCHANGED <<last_criteria, last_url>>

NextMatch == \E l \in ListingSet, c \in ValidCriteriaSet : MatchesCriteria(l, c)

SpecMatch == Init /\ [][NextMatch]_vars

\* _process_housing_results on one crawl output
ProcessHousingResults(crawl_data, criteria) ==
  /\ call.op = "none"
  /\ call' = [op |-> "_process_housing_results", crawl_data |-> crawl_data,
              criteria |-> criteria,
              ret |-> _process_housing_results(VList(crawl_data), criteria)]
  /\ UNCHANGED <<last_criteria, last_url>>

NextProcess ==
  \E xs \in SeqsUpTo(Fragments, MaxFrags), c \in ProcessCriteriaSet :
    ProcessHousingResults(xs, c)

SpecProcess == Init /\ [][NextProcess]_vars

----------------------------------------------------------------------------
(* Properties *)

Searched == call.op = "search_housing"

\* The query could not be converted to criteria
ParseFailed(llm) ==
  IF llm.kind = "object" THEN HousingCriteria(llm.d).raised ELSE TRUE

\* C1: search_housing never throws past its own boundary: whatever the two
\* collaborators do, and after any earlier searches, every call returns a
\* text and the agent goes on accepting queries.
C1_NeverThrows ==
  Searched => ~call.raised /\ call.ret # <<>> /\ call.ret[1] # <<>> /\ Running

\* A call in which the text-understanding call raised, after an earlier
\* search had resolved a URL, and a text came back.
C1_Witness ==
  Searched /\ call.llm.kind = "raise" /\ last_url # VNone /\ ~call.raised

\* C2: when the crawl call fails, search_housing returns the apology with the
\* last search URL, never the "no properties found" response.
C2_CrawlFailureIsApology ==
  (Searched /\ call.crawled /\ call.crawl.kind = "raise")
    => call.ret = Apology(last_url) /\ call.ret[1][1] # NoResultsLine

\* C3: when the text-understanding call fails or returns a malformed or
\* incomplete payload, search_housing returns the message asking for
\* location, number of rooms and maximum rent, and no crawl is performed.
C3_ParseFailureAsksToClarify ==
  (Searched /\ ParseFailed(call.llm))
    => call.ret = << <<ClarifyMessage>> >> /\ ~call.crawled

IsSet(v) == v # VNone

\* C4: _matches_criteria is true exactly when price, bedrooms and location
\* are set, price <= max_price and bedrooms >= min_bedrooms, for every
\* listing and every valid criteria (a set value of 0 included).
C4_MatcherExact ==
  call.op = "_matches_criteria" =>
    (call.ret <=>
       /\ IsSet(call.listing.price_dkk)
       /\ IsSet(call.listing.bedrooms)
       /\ IsSet(call.listing.location)
       /\ call.listing.price_dkk.n <= call.criteria.max_price.n
       /\ call.listing.bedrooms.n >= call.criteria.min_bedrooms.n)

\* Lower-case with hyphens for spaces, character by character
HyphenatedLower(s) ==
  [i \in 1..Len(s) |->
     CASE s[i] = " " -> "-" [] s[i] = "A" -> "a" [] s[i] = "B" -> "b"
       [] s[i] = "C" -> "c" [] OTHER -> s[i]]

\* {site}/rental-properties/{location}/{min_bedrooms}-rooms
BasePath(c) ==
  <<base_url, "/rental-properties/">> \o HyphenatedLower(c.location.s)
    \o <<"/", ToString(c.min_bedrooms.n), "-rooms">>

\* The query string after sep, with min_size_m2 when withSize
QueryString(c, withSize) ==
  <<"max_monthly_rent=", ToString(c.max_price.n)>>
    \o (IF c.property_type # VStr(<<"all">>)
        THEN <<"&", "housing_type=">> \o c.property_type.s ELSE <<>>)
    \o (IF withSize THEN <<"&", "min_size_m2=", ToString(c.min_size_m2.n)>> ELSE <<>>)

\* A search whose criteria were parsed and are valid
SearchedValid == Searched /\ call.criteria # VNone /\ ValidCriteria(call.criteria)

\* C5 as stated: the base path, directly followed by "?" and the query
\* string, with min_size_m2 for any present min_size, 0 included.
C5_UrlAsStated ==
  SearchedValid =>
    last_url = VStr(BasePath(call.criteria) \o <<"?">>
                    \o QueryString(call.criteria, call.criteria.min_size_m2 # VNone))

\* C5: for every valid criteria the URL is the base path, then "/?", then
\* max_monthly_rent always, housing_type unless property_type is "all", and
\* min_size_m2 only for a min_size that is present and not 0, joined by "&".
C5_UrlAmended ==
  SearchedValid =>
    last_url = VStr(BasePath(call.criteria) \o <<"/?">>
                    \o QueryString(call.criteria, Truthy(call.criteria.min_size_m2)))

\* A search for "Aarhus C" with a housing type and a minimum size of 0
C5_Witness ==
  /\ SearchedValid
  /\ call.criteria.location = AarhusC
  /\ call.criteria.property_type = VStr(<<"apartment">>)
  /\ call.criteria.min_size_m2 = VInt(0)
  /\ last_url # VNone

Processed == call.op = "_process_housing_results"

\* The fragments of a crawl output that give a listing
KeptFragments(crawl_data, criteria) ==
  SelectSeq(crawl_data, LAMBDA f : ProcessItem(f, criteria).kind = "append")

\* The first link with "/rental-properties/", made absolute
AbsoluteListingUrl(links) ==
  LET hits == {i \in 1..Len(links) : links[i].t = "str" /\ ContainsRentalPath(links[i])}
  IN  IF hits = {} THEN VNone
      ELSE LET link == links[CHOOSE i \in hits : \A j \in hits : i <= j]
           IN  IF link.s[1] = "http" THEN link ELSE VStr(<<base_url>> \o link.s)

LinksOf(item) == IF item.links = Absent THEN <<>> ELSE item.links.xs

\* C6: the listing_url of the listing of a fragment is the first link that
\* contains "/rental-properties/", with the base URL in front unless the
\* link starts with "http", and unset only when there is no such link.
C6_ListingUrlAbsolute ==
  Processed =>
    LET kept == KeptFragments(call.crawl_data, call.criteria)
    IN  \A k \in 1..Len(call.ret.val) :
          /\ k <= Len(kept)
          /\ call.ret.val[k].listing_url = AbsoluteListingUrl(LinksOf(kept[k]))

\* C7: every criteria that _parse_query returns has location, max_price and
\* min_bedrooms of the right type with max_price > 0 and min_bedrooms >= 0,
\* so no other payload reaches the URL builder, the crawl or the matcher.
C7_OnlyValidCriteria ==
  Searched =>
    /\ call.criteria # VNone => RequiredValid(call.criteria)
    /\ call.crawled => RequiredValid(call.criteria)

\* The title lines of a response: "<i>. <title>"
TitleLines(ret) == SelectSeq(ret, LAMBDA l : Len(l) >= 2 /\ l[2] = ". ")

\* C8: for listings, a header with their number and one numbered block per
\* listing, 1..n in order, titled with the listing's title or "Unlisted
\* Property" for an empty title; for no listings, the no-results message with
\* the last search URL.
C8_ResponseBlocks ==
  (Searched /\ call.crawled) =>
    IF call.listings = <<>>
    THEN call.ret = << <<NoResultsLine>>, Render(last_url) >>
    ELSE /\ call.ret[1] = <<"Found ", ToString(Len(call.listings)), " matching properties:">>
         /\ TitleLines(call.ret) =
              [i \in 1..Len(call.listings) |->
                 <<ToString(i), ". ">>
                   \o (IF call.listings[i].title.s = <<>> THEN <<"Unlisted Property">>
                       ELSE call.listings[i].title.s)]

\* The URL that a response shows, for the two responses that show one
EmbeddedUrl(ret) ==
  IF ret[1][1] = ApologyText THEN Tail(ret[1])
  ELSE IF ret[1][1] = NoResultsLine THEN ret[2]
  ELSE <<>>

ShowsUrl(ret) == ret[1][1] \in {ApologyText, NoResultsLine}

\* C9: the URL in the response to a call (apology or no-results message) is
\* the search URL resolved from that call's query, never one left by an
\* earlier search and never unset.
C9_UrlOfThisCall ==
  (Searched /\ ShowsUrl(call.ret)) =>
    /\ call.criteria # VNone
    /\ ~construct_search_url(call.criteria).raised
    /\ EmbeddedUrl(call.ret) = construct_search_url(call.criteria).val

InsertAt(xs, pos, x) == SubSeq(xs, 1, pos) \o <<x>> \o SubSeq(xs, pos + 1, Len(xs))

\* The listings of the fragments that give one, in the order of the fragments
ListingsOfKept(crawl_data, criteria) ==
  LET kept == KeptFragments(crawl_data, criteria)
  IN  [k \in 1..Len(kept) |-> ProcessItem(kept[k], criteria).listing]

\* C10: _process_housing_results returns exactly the listings of the
\* fragments that have a text, parse and match, in order and at most one per
\* fragment; a malformed or empty fragment inserted anywhere changes nothing
\* for the others and never aborts the processing.
C10_FailuresContained ==
  Processed =>
    /\ ~call.ret.raised
    /\ call.ret.val = ListingsOfKept(call.crawl_data, call.criteria)
    /\ Len(call.ret.val) <= Len(call.crawl_data)
    /\ \A bad \in MalformedFragments \cup EmptyFragments :
         \A pos \in 0..Len(call.crawl_data) :
           /\ ~_process_housing_results(VList(InsertAt(call.crawl_data, pos, bad)),
                                        call.criteria).raised
           /\ _process_housing_results(VList(InsertAt(call.crawl_data, pos, bad)),
                                       call.criteria).val = call.ret.val

\* A malformed fragment before a fragment whose listing is returned
C10_Witness ==
  /\ Processed
  /\ Len(call.crawl_data) = 2
  /\ call.crawl_data[1] \in MalformedFragments
  /\ Len(call.ret.val) = 1

====
